---- MODULE Spec2Model ----
(***************************************************************************)
(* Model of the robotics troubleshooting advisor:                          *)
(*   workflow.ts  - the stage policy (getSystemPromptForStage,             *)
(*                  determineNextStage, DiagnosisWorkflow.run)             *)
(*   index.ts     - the AdvisorState durable object (handleMessage,        *)
(*                  getState) and the worker's handleChat                  *)
(*                                                                         *)
(* A chat turn is one handleChat invocation.  Its awaits are the points    *)
(* where other requests may run, so a turn is modelled by the steps        *)
(*   received -> (GET /state + workflow) -> (AI.run) -> (POST /message)    *)
(* Each request to the durable object runs atomically in the object.       *)
(*                                                                         *)
(* The timestamp field of a stored message (Date.now()) is written but     *)
(* never read by any code path and is left out of the stored entries.      *)
(***************************************************************************)
EXTENDS Integers, Sequences, FiniteSets, TLC

\* ------------------------------------------------------------------ bounds
\* Number of chat turns of a run in which turns may overlap and none fails.
MaxTurns == 3
\* Number of chat turns of a run in which turns are handled one at a time
\* and none fails.
MaxSeqTurns == 6
\* Number of chat turns of a run in which turns may overlap and may fail.
MaxFaultTurns == 2
\* Number of chat turns of a run in which turns are handled one at a time
\* and may fail.
MaxSeqFaultTurns == 3
\* Longest history handed to the stage policy when it is checked on its own.
MaxHistLen == 6
\* Longest history handed to the construction of the messages array when it
\* is checked on its own.
MaxBuildLen == 10
\* Number of requests sent to a durable object when it is checked on its own.
MaxStoreOps == 3
\* Number of requests (turns and history reads) when turns and history reads
\* of two sessions overlap.
MaxSharedRequests == 2

\* ------------------------------------------------------------ JSON values
\* A field of a parsed request body: absent, a string, or a number.
Undefined == [type |-> "undefined"]
Str(s) == [type |-> "string", value |-> s]
Num(n) == [type |-> "number", value |-> n]

\* JavaScript truthiness of such a value (the operand of `!x`).
Truthy(v) ==
  CASE v.type = "undefined" -> FALSE
    [] v.type = "string" -> v.value # ""
    [] v.type = "number" -> v.value # 0

\* ------------------------------------------------------------ workflow.ts
Stages == {"initial", "diagnostic", "solution"}

\* The three entries of the `prompts` object literal.
prompts == [initial |-> "PROMPT:initial",
            diagnostic |-> "PROMPT:diagnostic",
            solution |-> "PROMPT:solution"]

\* Property names every object literal inherits from Object.prototype; for
\* these `prompts[stage]` is a (truthy) function, not undefined.
ObjectPrototypeKeys == {"constructor", "toString"}

\* return prompts[stage] || prompts.initial;
getSystemPromptForStage(stage) ==
  IF stage \in DOMAIN prompts THEN prompts[stage]
  ELSE IF stage \in ObjectPrototypeKeys THEN "FUNCTION:" \o stage
  ELSE prompts["initial"]

\* The keyword list of the diagnostic branch; assigned, never read.
solutionKeywords == {"root cause", "likely cause", "problem is", "issue is",
                     "reduce", "increase", "replace", "upgrade", "try this",
                     "adjust", "calibrate", "check the", "verify the"}

\* userMessage.toLowerCase(): a TypeError unless userMessage is a string.
\* (The lowered text itself is never used.)
toLowerCaseThrows(userMessage) == userMessage.type # "string"

\* (variant: the threshold of the doc comment, 6, in the diagnostic branch)
determineNextStage_m1(currentStage, userMessage, history) ==
  IF toLowerCaseThrows(userMessage) THEN "TypeError"
  ELSE IF currentStage = "initial"
  THEN IF Len(history) >= 2 THEN "diagnostic" ELSE "initial"
  ELSE IF currentStage = "diagnostic"
  THEN IF Len(history) >= 6 THEN "solution" ELSE "diagnostic"
  ELSE "solution"

\* (variant: in the diagnostic branch a message that lowers to one of the
\* keywords moves the stage to solution at once)
determineNextStage_m2(currentStage, userMessage, history) ==
  LET lower == IF userMessage = [type |-> "string", value |-> "Try This"]
               THEN "try this" ELSE userMessage.value
  IN IF toLowerCaseThrows(userMessage) THEN "TypeError"
     ELSE IF currentStage = "initial"
     THEN IF Len(history) >= 2 THEN "diagnostic" ELSE "initial"
     ELSE IF currentStage = "diagnostic"
     THEN IF lower \in solutionKeywords \/ Len(history) >= 4
          THEN "solution" ELSE "diagnostic"
     ELSE "solution"

\* function determineNextStage(currentStage, userMessage, history)
determineNextStage(currentStage, userMessage, history) ==
  IF toLowerCaseThrows(userMessage) THEN "TypeError"
  ELSE IF currentStage = "initial"
  THEN IF Len(history) >= 2 THEN "diagnostic" ELSE "initial"
  ELSE IF currentStage = "diagnostic"
  THEN IF Len(history) >= 4 THEN "solution" ELSE "diagnostic"
  ELSE "solution"

\* (variant: the prompt is the one of the stage computed for the turn)
run_m1(trigger) ==
  LET nextStage == determineNextStage(trigger.currentStage, trigger.userMessage,
                                      trigger.conversationHistory)
  IN IF nextStage = "TypeError"
     THEN [threw |-> TRUE, systemPrompt |-> "", nextStage |-> "",
           sessionId |-> trigger.sessionId]
     ELSE [threw |-> FALSE, systemPrompt |-> getSystemPromptForStage(nextStage),
           nextStage |-> nextStage, sessionId |-> trigger.sessionId]

\* DiagnosisWorkflow.run(trigger): the prompt of trigger.currentStage and the
\* next stage; it throws when determineNextStage throws.
run(trigger) ==
  LET systemPrompt == getSystemPromptForStage(trigger.currentStage)
      nextStage == determineNextStage(trigger.currentStage, trigger.userMessage,
                                      trigger.conversationHistory)
  IN IF nextStage = "TypeError"
     THEN [threw |-> TRUE, systemPrompt |-> systemPrompt, nextStage |-> "",
           sessionId |-> trigger.sessionId]
     ELSE [threw |-> FALSE, systemPrompt |-> systemPrompt, nextStage |-> nextStage,
           sessionId |-> trigger.sessionId]

\* ------------------------------------------------- index.ts: AdvisorState
\* The sessions of the model; each names one durable object (idFromName).
Sessions == {"s1", "s2"}

\* A stored chat message (the timestamp is left out, see the header).
ChatMessage(role, content) == [role |-> role, content |-> content]

\* JSON.stringify / JSON.parse of a history array: the text is modelled as
\* the sequence of its objects' (role, content) members in order.
JSONstringify(history) ==
  [i \in 1..Len(history) |-> <<history[i].role, history[i].content>>]
JSONparse(text) ==
  [i \in 1..Len(text) |-> ChatMessage(text[i][1], text[i][2])]

\* The text '[]'.
EmptyArrayJSON == JSONstringify(<<>>)

\* The durable object's key/value storage: a function whose domain holds the
\* keys written so far.  `storage.get(key) || dflt` for the values the
\* object stores (a non-empty JSON text, a non-empty stage name).
EmptyStorage == <<>>
storageGetOr(st, key, dflt) == IF key \in DOMAIN st THEN st[key] ELSE dflt
storagePut(st, key, value) ==
  [k \in (DOMAIN st) \cup {key} |-> IF k = key THEN value ELSE st[k]]

\* Where a storage operation of a request may throw.
MessageFaults == {"get", "putHistory", "putStage"}
StateFaults == {"get"}

ErrorResponse(status, message) ==
  [status |-> status, body |-> [error |-> message]]

\* (variant: only the user message is pushed)
handleMessage_m1(st, body, fault) ==
  LET history == JSONparse(storageGetOr(st, "history", EmptyArrayJSON))
      pushed == history \o <<ChatMessage("user", body.userMessage)>>
      st1 == storagePut(st, "history", JSONstringify(pushed))
      st2 == storagePut(st1, "stage", body.nextStage)
  IN CASE fault = "get" ->
            [storage |-> st, puts |-> <<>>,
             response |-> ErrorResponse(500, "storage error")]
       [] fault = "putHistory" ->
            [storage |-> st, puts |-> <<>>,
             response |-> ErrorResponse(500, "storage error")]
       [] fault = "putStage" ->
            [storage |-> st1, puts |-> <<"history">>,
             response |-> ErrorResponse(500, "storage error")]
       [] OTHER ->
            [storage |-> st2, puts |-> <<"history", "stage">>,
             response |-> [status |-> 200,
                           body |-> [success |-> TRUE, messageCount |-> Len(pushed),
                                     stage |-> body.nextStage]]]

\* (variant: the stored history is not read; the pair replaces it)
handleMessage_m2(st, body, fault) ==
  LET pushed == <<ChatMessage("user", body.userMessage),
                  ChatMessage("assistant", body.assistantMessage)>>
      st1 == storagePut(st, "history", JSONstringify(pushed))
      st2 == storagePut(st1, "stage", body.nextStage)
  IN CASE fault = "get" ->
            [storage |-> st, puts |-> <<>>,
             response |-> ErrorResponse(500, "storage error")]
       [] fault = "putHistory" ->
            [storage |-> st, puts |-> <<>>,
             response |-> ErrorResponse(500, "storage error")]
       [] fault = "putStage" ->
            [storage |-> st1, puts |-> <<"history">>,
             response |-> ErrorResponse(500, "storage error")]
       [] OTHER ->
            [storage |-> st2, puts |-> <<"history", "stage">>,
             response |-> [status |-> 200,
                           body |-> [success |-> TRUE, messageCount |-> Len(pushed),
                                     stage |-> body.nextStage]]]

\* AdvisorState.handleMessage: the storage after the request, the keys put in
\* order, and the response.  fault = "none": both puts are done.  A throw is
\* caught and answered with status 500; what was put before the throw stays.
handleMessage(st, body, fault) ==
  LET history == JSONparse(storageGetOr(st, "history", EmptyArrayJSON))
      pushed == history \o <<ChatMessage("user", body.userMessage),
                             ChatMessage("assistant", body.assistantMessage)>>
      st1 == storagePut(st, "history", JSONstringify(pushed))
      st2 == storagePut(st1, "stage", body.nextStage)
  IN CASE fault = "get" ->
            [storage |-> st, puts |-> <<>>,
             response |-> ErrorResponse(500, "storage error")]
       [] fault = "putHistory" ->
            [storage |-> st, puts |-> <<>>,
             response |-> ErrorResponse(500, "storage error")]
       [] fault = "putStage" ->
            [storage |-> st1, puts |-> <<"history">>,
             response |-> ErrorResponse(500, "storage error")]
       [] OTHER ->
            [storage |-> st2, puts |-> <<"history", "stage">>,
             response |-> [status |-> 200,
                           body |-> [success |-> TRUE, messageCount |-> Len(pushed),
                                     stage |-> body.nextStage]]]

\* (variant: the stage is read under another key, so the default is returned)
getState_m1(st, fault) ==
  LET historyStr == storageGetOr(st, "history", EmptyArrayJSON)
      stage == storageGetOr(st, "Stage", "initial")
      history == JSONparse(historyStr)
  IN IF fault = "get"
     THEN ErrorResponse(500, "storage error")
     ELSE [status |-> 200,
           body |-> [stage |-> stage, messageCount |-> Len(history),
                     history |-> history]]

\* AdvisorState.getState: the response; the storage is only read.
getState(st, fault) ==
  LET historyStr == storageGetOr(st, "history", EmptyArrayJSON)
      stage == storageGetOr(st, "stage", "initial")
      history == JSONparse(historyStr)
  IN IF fault = "get"
     THEN ErrorResponse(500, "storage error")
     ELSE [status |-> 200,
           body |-> [stage |-> stage, messageCount |-> Len(history),
                     history |-> history]]

\* ---------------------------------------------------- index.ts: handleChat
\* conversationHistory.slice(-8)
HistoryWindow == 8

\* (variant: slice(0, 8), the first entries instead of the last)
SliceLast_m1(h, n) ==
  IF Len(h) <= n THEN h ELSE SubSeq(h, 1, n)

SliceLast(h, n) ==
  IF Len(h) <= n THEN h ELSE SubSeq(h, Len(h) - n + 1, Len(h))

\* .filter(m => m && m.role && m.content)
RECURSIVE FilterUsable(_)
FilterUsable(h) ==
  IF h = <<>> THEN <<>>
  ELSE IF Head(h).role # "" /\ Head(h).content # ""
       THEN <<Head(h)>> \o FilterUsable(Tail(h))
       ELSE FilterUsable(Tail(h))

\* The messages array handed to the model.
buildMessages(systemPrompt, conversationHistory, userMessage) ==
  <<[role |-> "system", content |-> systemPrompt]>>
  \o [i \in 1..Len(FilterUsable(SliceLast(conversationHistory, HistoryWindow))) |->
        [role |-> FilterUsable(SliceLast(conversationHistory, HistoryWindow))[i].role,
         content |-> FilterUsable(SliceLast(conversationHistory, HistoryWindow))[i].content]]
  \o <<[role |-> "user", content |-> userMessage]>>

\* (variant: another default stage)
stageOfBody_m1(body) == IF "stage" \in DOMAIN body THEN body.stage ELSE "diagnostic"

\* sessionState.stage || 'initial' and sessionState.history || [] on the
\* parsed body of the /state response, whatever its status.
stageOfBody(body) == IF "stage" \in DOMAIN body THEN body.stage ELSE "initial"
historyOfBody(body) == IF "history" \in DOMAIN body THEN body.history ELSE <<>>

\* What env.AI.run may resolve to: an object with a response text, with an
\* empty one, with none, or null.
AiObject(response) == [kind |-> "object", response |-> response]
AiNull == [kind |-> "null", response |-> Undefined]
AiResponses == {AiObject(Str("r1")), AiObject(Str("")), AiObject(Undefined), AiNull}

\* aiResponse.response throws a TypeError when aiResponse is null.
responseAccessThrows(aiResponse) == aiResponse.kind = "null"

\* String(aiResponse.response || aiResponse)
assistantMessageOf(aiResponse) ==
  IF Truthy(aiResponse.response) THEN aiResponse.response.value
  ELSE "[object Object]"

\* ------------------------------------------------------------------ state
VARIABLES
  storage,   \* storage[s]: the key/value storage of session s's durable object
  pc,        \* pc[t]: where handleChat invocation t stands
  req,       \* req[t]: the parsed request body {sessionId, userMessage}
  loc,       \* loc[t]: handleChat's local constants while it runs
  resp,      \* resp[t]: the response returned to the caller
  trace,     \* trace[t]: the downstream calls turn t made and how each ended:
             \*   "none", "error" (the store answered with an error), "null"
             \*   (AI.run resolved to null), "reject" (the call threw)
  pre,       \* pre[t]: the session's storage when turn t was received
  started,   \* number of requests received so far
  ordinal,   \* ordinal[s]: number of valid chat requests received for session s
  puts,      \* puts[s]: how often each storage key of session s was put
  pIn,       \* input of a stage policy evaluation
  pOut,      \* its result
  p2,        \* a second evaluation of the policy on another user message
  mIn,       \* input of a messages-array construction
  mOut,      \* its result
  doLog,     \* requests sent straight to one durable object: their number and
             \* the last two with their responses
  hres       \* the last response of GET /api/history/:sessionId

vars == <<storage, pc, req, loc, resp, trace, pre, started, ordinal, puts,
          pIn, pOut, p2, mIn, mOut, doLog, hres>>
chatVars == <<storage, pc, req, loc, resp, trace, pre, started, ordinal, puts>>
messageVars == <<mIn, mOut, doLog, hres>>
policyVars == <<pIn, pOut, p2, messageVars>>

\* Number of handleChat invocations that may be in flight at once.
MaxSlots == 2
Slots == 1..MaxSlots

NoReq == [sessionId |-> Undefined, userMessage |-> Undefined]
NoLoc == [currentStage |-> "", conversationHistory |-> <<>>, systemPrompt |-> "",
          nextStage |-> "", messages |-> <<>>, assistantMessage |-> ""]
NoResp == [status |-> 0, body |-> [error |-> ""]]
NoTrace == [n |-> 0, stateReads |-> 0, aiCalls |-> 0, saves |-> 0,
            stateFault |-> "none", aiFault |-> "none", saveFault |-> "none"]
NoPolicyIn == [currentStage |-> "", userMessage |-> Undefined, history |-> <<>>]
NoPolicyOut == [done |-> FALSE, systemPrompt |-> "", nextStage |-> ""]
NoSecondRun == [userMessage |-> Undefined, done |-> FALSE, systemPrompt |-> "",
                nextStage |-> ""]
NoMessagesIn == [systemPrompt |-> "", conversationHistory |-> <<>>, userMessage |-> ""]
NoMessagesOut == [done |-> FALSE, messages |-> <<>>]
NoLog == [n |-> 0, ops |-> <<>>]
NoHistoryResponse == [sessionId |-> "", status |-> 0, body |-> [error |-> ""]]

InitChat ==
  /\ storage = [s \in Sessions |-> EmptyStorage]
  /\ pc = [t \in Slots |-> "idle"]
  /\ req = [t \in Slots |-> NoReq]
  /\ loc = [t \in Slots |-> NoLoc]
  /\ resp = [t \in Slots |-> NoResp]
  /\ trace = [t \in Slots |-> NoTrace]
  /\ pre = [t \in Slots |-> EmptyStorage]
  /\ started = 0
  /\ ordinal = [s \in Sessions |-> 0]
  /\ puts = [s \in Sessions |-> [history |-> 0, stage |-> 0]]

InitMessages == mIn = NoMessagesIn /\ mOut = NoMessagesOut /\ doLog = NoLog
                /\ hres = NoHistoryResponse
InitNoPolicy == pIn = NoPolicyIn /\ pOut = NoPolicyOut /\ p2 = NoSecondRun

Init == InitChat /\ InitNoPolicy /\ InitMessages

\* The session a validated request addresses (idFromName(sessionId)).
\* (variant: every request is routed to the object of one session)
sessionOf_m1(t) == "s1"

sessionOf(t) == req[t].sessionId.value

\* The stored state of a session as a read returns it.
storedHistory(s) == JSONparse(storageGetOr(storage[s], "history", EmptyArrayJSON))
storedStage(s) == storageGetOr(storage[s], "stage", "initial")

\* Request bodies a client may post: well-formed ones, and ones with a field
\* missing, empty or not a string.
ValidChatBodies == [sessionId : {Str(s) : s \in Sessions}, userMessage : {Str("m1")}]
ChatBodies ==
  ValidChatBodies
  \cup [sessionId : {Undefined, Str("")}, userMessage : {Str("m1")}]
  \cup [sessionId : {Str("s1")}, userMessage : {Undefined, Str(""), Num(7)}]
  \cup [sessionId : {Undefined}, userMessage : {Undefined}]

InFlight(t) == pc[t] \notin {"idle", "done"}

\* A POST /api/chat arrives and its body is parsed (handleChat, line 506).
\* Slots are taken lowest first; a finished invocation's slot is reused.
ChatReceive(t, bodies, limit, oneAtATime) ==
  /\ started < limit
  /\ ~InFlight(t)
  /\ \A u \in Slots : u < t => InFlight(u)
  /\ oneAtATime => \A u \in Slots : ~InFlight(u)
  /\ \E body \in bodies :
       /\ req' = [req EXCEPT ![t] = body]
       /\ LET valid == Truthy(body.sessionId) /\ Truthy(body.userMessage)
              s == body.sessionId.value
          IN /\ ordinal' = IF valid THEN [ordinal EXCEPT ![s] = @ + 1] ELSE ordinal
             /\ trace' = [trace EXCEPT ![t] =
                            [NoTrace EXCEPT !.n = IF valid THEN ordinal[s] + 1 ELSE 0]]
             /\ pre' = [pre EXCEPT ![t] = IF valid THEN storage[s] ELSE EmptyStorage]
  /\ pc' = [pc EXCEPT ![t] = "received"]
  /\ loc' = [loc EXCEPT ![t] = NoLoc]
  /\ resp' = [resp EXCEPT ![t] = NoResp]
  /\ started' = started + 1
  /\ UNCHANGED <<storage, puts, policyVars>>

\* (variant: only sessionId is tested)
inputRejected_m1(body) == ~Truthy(body.sessionId)

\* if (!sessionId || !userMessage)
inputRejected(body) == ~Truthy(body.sessionId) \/ ~Truthy(body.userMessage)

\* The 400 answer of handleChat (lines 508-513).
ChatInvalid(t) ==
  /\ pc[t] = "received"
  /\ inputRejected(req[t])
  /\ resp' = [resp EXCEPT ![t] = ErrorResponse(400, "sessionId and userMessage required")]
  /\ pc' = [pc EXCEPT ![t] = "done"]
  /\ UNCHANGED <<storage, req, loc, trace, pre, started, ordinal, puts, policyVars>>

\* GET /state on the session's durable object, then the workflow and the
\* messages array (handleChat, lines 515-548).  The response's status is not
\* looked at: a 500 body {error} has neither stage nor history.
ChatState(t, fault) ==
  /\ pc[t] = "received"
  /\ ~inputRejected(req[t])
  /\ LET s == sessionOf(t)
         stateRes == getState(storage[s], fault)
         sessionState == stateRes.body
         currentStage == stageOfBody(sessionState)
         conversationHistory == historyOfBody(sessionState)
         workflowResult == run([sessionId |-> s,
                                userMessage |-> req[t].userMessage,
                                conversationHistory |-> conversationHistory,
                                currentStage |-> currentStage])
     IN /\ trace' = [trace EXCEPT ![t].stateReads = @ + 1, ![t].stateFault = IF fault = "none" THEN "none" ELSE "error"]
        /\ IF workflowResult.threw
           THEN /\ resp' = [resp EXCEPT ![t] = ErrorResponse(500, "TypeError")]
                /\ pc' = [pc EXCEPT ![t] = "done"]
                /\ loc' = [loc EXCEPT ![t] = NoLoc]
           ELSE /\ loc' = [loc EXCEPT ![t] =
                    [currentStage |-> currentStage,
                     conversationHistory |-> conversationHistory,
                     systemPrompt |-> workflowResult.systemPrompt,
                     nextStage |-> workflowResult.nextStage,
                     messages |-> buildMessages(workflowResult.systemPrompt,
                                                conversationHistory,
                                                req[t].userMessage.value),
                     assistantMessage |-> ""]]
                /\ pc' = [pc EXCEPT ![t] = "ai"]
                /\ resp' = resp
  /\ UNCHANGED <<storage, req, pre, started, ordinal, puts, policyVars>>

ChatStateOk(t) == ChatState(t, "none")
ChatStateError(t) == \E fault \in StateFaults : ChatState(t, fault)

\* doStub.fetch(stateReq) rejects (the object cannot be reached): the catch
\* of handleChat answers 500 (lines 570-576).
ChatStateReject(t) ==
  /\ pc[t] = "received"
  /\ ~inputRejected(req[t])
  /\ trace' = [trace EXCEPT ![t].stateReads = @ + 1, ![t].stateFault = "reject"]
  /\ resp' = [resp EXCEPT ![t] = ErrorResponse(500, "fetch failed")]
  /\ pc' = [pc EXCEPT ![t] = "done"]
  /\ UNCHANGED <<storage, req, loc, pre, started, ordinal, puts, policyVars>>

\* env.AI.run resolves (lines 551-557).
ChatAi(t, aiResponse) ==
  /\ pc[t] = "ai"
  /\ IF responseAccessThrows(aiResponse)
     THEN /\ trace' = [trace EXCEPT ![t].aiCalls = @ + 1, ![t].aiFault = "null"]
          /\ resp' = [resp EXCEPT ![t] = ErrorResponse(500, "TypeError")]
          /\ pc' = [pc EXCEPT ![t] = "done"]
          /\ loc' = [loc EXCEPT ![t] = NoLoc]
     ELSE /\ trace' = [trace EXCEPT ![t].aiCalls = @ + 1]
          /\ loc' = [loc EXCEPT ![t].assistantMessage = assistantMessageOf(aiResponse)]
          /\ pc' = [pc EXCEPT ![t] = "save"]
          /\ resp' = resp
  /\ UNCHANGED <<storage, req, pre, started, ordinal, puts, policyVars>>

ChatAiText(t) == ChatAi(t, AiObject(Str("r1")))
ChatAiOther(t) == \E aiResponse \in AiResponses \ {AiObject(Str("r1"))} : ChatAi(t, aiResponse)

\* (variant: the failure is swallowed and a fallback reply is persisted)
ChatAiReject_m1(t) ==
  /\ pc[t] = "ai"
  /\ trace' = [trace EXCEPT ![t].aiCalls = @ + 1, ![t].aiFault = "reject"]
  /\ loc' = [loc EXCEPT ![t].assistantMessage = "Sorry, something went wrong."]
  /\ pc' = [pc EXCEPT ![t] = "save"]
  /\ UNCHANGED <<storage, req, resp, pre, started, ordinal, puts, policyVars>>

\* env.AI.run rejects: the catch of handleChat answers 500.
ChatAiReject(t) ==
  /\ pc[t] = "ai"
  /\ trace' = [trace EXCEPT ![t].aiCalls = @ + 1, ![t].aiFault = "reject"]
  /\ resp' = [resp EXCEPT ![t] = ErrorResponse(500, "AI error")]
  /\ pc' = [pc EXCEPT ![t] = "done"]
  /\ loc' = [loc EXCEPT ![t] = NoLoc]
  /\ UNCHANGED <<storage, req, pre, started, ordinal, puts, policyVars>>

\* The answer of handleChat once `await doStub.fetch(saveReq)` has resolved
\* (lines 564-569); the response of the save request is not looked at.
chatAnswerAfterSave(saveRes, assistantMessage, nextStage, sessionId) ==
  [status |-> 200,
   body |-> [message |-> assistantMessage, stage |-> nextStage, sessionId |-> sessionId]]

\* (variant: the save writes back the history the turn read at its start
\* with the pair appended, instead of appending inside the object)
ChatSave_m1(t, fault) ==
  /\ pc[t] = "save"
  /\ LET s == sessionOf(t)
         stale == storagePut(storage[s], "history",
                             JSONstringify(loc[t].conversationHistory))
         r == handleMessage(stale,
                            [userMessage |-> req[t].userMessage.value,
                             assistantMessage |-> loc[t].assistantMessage,
                             nextStage |-> loc[t].nextStage],
                            fault)
         n(key) == Cardinality({i \in 1..Len(r.puts) : r.puts[i] = key})
     IN /\ storage' = [storage EXCEPT ![s] = r.storage]
        /\ puts' = [puts EXCEPT ![s] = [history |-> @.history + n("history"),
                                        stage |-> @.stage + n("stage")]]
        /\ resp' = [resp EXCEPT ![t] =
             [status |-> 200,
              body |-> [message |-> loc[t].assistantMessage,
                        stage |-> loc[t].nextStage, sessionId |-> s]]]
  /\ trace' = [trace EXCEPT ![t].saves = @ + 1, ![t].saveFault = IF fault = "none" THEN "none" ELSE "error"]
  /\ pc' = [pc EXCEPT ![t] = "done"]
  /\ loc' = [loc EXCEPT ![t] = NoLoc]
  /\ UNCHANGED <<req, pre, started, ordinal, policyVars>>

\* POST /message on the session's durable object, then the answer (lines 559-569).
ChatSave(t, fault) ==
  /\ pc[t] = "save"
  /\ LET s == sessionOf(t)
         r == handleMessage(storage[s],
                            [userMessage |-> req[t].userMessage.value,
                             assistantMessage |-> loc[t].assistantMessage,
                             nextStage |-> loc[t].nextStage],
                            fault)
         n(key) == Cardinality({i \in 1..Len(r.puts) : r.puts[i] = key})
     IN /\ storage' = [storage EXCEPT ![s] = r.storage]
        /\ puts' = [puts EXCEPT ![s] = [history |-> @.history + n("history"),
                                        stage |-> @.stage + n("stage")]]
        /\ resp' = [resp EXCEPT ![t] =
             chatAnswerAfterSave(r.response, loc[t].assistantMessage, loc[t].nextStage, s)]
  /\ trace' = [trace EXCEPT ![t].saves = @ + 1, ![t].saveFault = IF fault = "none" THEN "none" ELSE "error"]
  /\ pc' = [pc EXCEPT ![t] = "done"]
  /\ loc' = [loc EXCEPT ![t] = NoLoc]
  /\ UNCHANGED <<req, pre, started, ordinal, policyVars>>

ChatSaveOk(t) == ChatSave(t, "none")
ChatSaveError(t) == \E fault \in MessageFaults : ChatSave(t, fault)

\* doStub.fetch(saveReq) rejects (the object cannot be reached): the catch of
\* handleChat answers 500.
ChatSaveReject(t) ==
  /\ pc[t] = "save"
  /\ trace' = [trace EXCEPT ![t].saves = @ + 1, ![t].saveFault = "reject"]
  /\ resp' = [resp EXCEPT ![t] = ErrorResponse(500, "fetch failed")]
  /\ pc' = [pc EXCEPT ![t] = "done"]
  /\ loc' = [loc EXCEPT ![t] = NoLoc]
  /\ UNCHANGED <<storage, req, pre, started, ordinal, puts, policyVars>>

\* ---------------------------------------------------------- specifications
\* Turns may overlap; every failure the code handles may happen.
Next ==
  \/ \E t \in Slots : ChatReceive(t, ChatBodies, MaxFaultTurns, FALSE)
  \/ \E t \in Slots : ChatInvalid(t)
  \/ \E t \in Slots : ChatStateOk(t)
  \/ \E t \in Slots : ChatStateError(t)
  \/ \E t \in Slots : ChatStateReject(t)
  \/ \E t \in Slots : ChatAiText(t)
  \/ \E t \in Slots : ChatAiOther(t)
  \/ \E t \in Slots : ChatAiReject(t)
  \/ \E t \in Slots : ChatSaveOk(t)
  \/ \E t \in Slots : ChatSaveError(t)
  \/ \E t \in Slots : ChatSaveReject(t)

Spec == Init /\ [][Next]_vars

\* Turns are handled one at a time; every failure may happen.
NextSeq ==
  \/ \E t \in Slots : ChatReceive(t, ChatBodies, MaxSeqFaultTurns, TRUE)
  \/ \E t \in Slots : ChatInvalid(t)
  \/ \E t \in Slots : ChatStateOk(t)
  \/ \E t \in Slots : ChatStateError(t)
  \/ \E t \in Slots : ChatStateReject(t)
  \/ \E t \in Slots : ChatAiText(t)
  \/ \E t \in Slots : ChatAiOther(t)
  \/ \E t \in Slots : ChatAiReject(t)
  \/ \E t \in Slots : ChatSaveOk(t)
  \/ \E t \in Slots : ChatSaveError(t)
  \/ \E t \in Slots : ChatSaveReject(t)

SpecSeq == Init /\ [][NextSeq]_vars

\* Turns are handled one at a time and no request fails.
NextSeqOk ==
  \/ \E t \in Slots : ChatReceive(t, ValidChatBodies, MaxSeqTurns, TRUE)
  \/ \E t \in Slots : ChatStateOk(t)
  \/ \E t \in Slots : ChatAiText(t)
  \/ \E t \in Slots : ChatSaveOk(t)

SpecSeqOk == Init /\ [][NextSeqOk]_vars

\* Turns may overlap and no request fails.
NextOverlapOk ==
  \/ \E t \in Slots : ChatReceive(t, ValidChatBodies, MaxTurns, FALSE)
  \/ \E t \in Slots : ChatStateOk(t)
  \/ \E t \in Slots : ChatAiText(t)
  \/ \E t \in Slots : ChatSaveOk(t)

SpecOverlapOk == Init /\ [][NextOverlapOk]_vars

\* The stage policy on its own: an input is drawn, then decide is applied.
HistoryOfLen(n) ==
  [i \in 1..n |-> ChatMessage(IF i % 2 = 1 THEN "user" ELSE "assistant",
                              IF i % 2 = 1 THEN "m1" ELSE "r1")]
PolicyStages == Stages \cup {"unknown", "", "constructor"}
PolicyMessages == {Str("m1"), Str("root cause"), Str("Try This")}
PolicyInputs ==
  [currentStage : PolicyStages, userMessage : PolicyMessages,
   history : {HistoryOfLen(n) : n \in 0..MaxHistLen}]

InitPolicy ==
  /\ InitChat /\ InitMessages
  /\ pIn \in PolicyInputs /\ pOut = NoPolicyOut /\ p2 = NoSecondRun

Decide ==
  /\ ~pOut.done
  /\ LET r == run([sessionId |-> "s1", userMessage |-> pIn.userMessage,
                   conversationHistory |-> pIn.history,
                   currentStage |-> pIn.currentStage])
     IN pOut' = [done |-> TRUE, systemPrompt |-> r.systemPrompt, nextStage |-> r.nextStage]
  /\ UNCHANGED <<pIn, p2, messageVars, chatVars>>

NextPolicy == Decide

SpecPolicy == InitPolicy /\ [][NextPolicy]_vars

\* Two runs of the workflow on the same stage and history, each with a user
\* message of its own.
InitPolicyPair ==
  /\ InitChat /\ InitMessages
  /\ pIn \in PolicyInputs /\ pOut = NoPolicyOut
  /\ \E m \in PolicyMessages : p2 = [NoSecondRun EXCEPT !.userMessage = m]

Decide2 ==
  /\ ~p2.done
  /\ LET r == run([sessionId |-> "s1", userMessage |-> p2.userMessage,
                   conversationHistory |-> pIn.history,
                   currentStage |-> pIn.currentStage])
     IN p2' = [userMessage |-> p2.userMessage, done |-> TRUE,
               systemPrompt |-> r.systemPrompt, nextStage |-> r.nextStage]
  /\ UNCHANGED <<pIn, pOut, messageVars, chatVars>>

NextPolicyPair ==
  \/ Decide
  \/ Decide2

SpecPolicyPair == InitPolicyPair /\ [][NextPolicyPair]_vars

\* The messages array on its own: a system prompt, a stored history and a
\* user message are drawn, then the array is built.  The drawn histories are
\* of every length up to MaxBuildLen, their contents pairwise different, one
\* of them possibly the empty string (the store accepts any content).
ContentNames == <<"c01", "c02", "c03", "c04", "c05", "c06", "c07", "c08",
                  "c09", "c10", "c11", "c12", "c13", "c14", "c15", "c16">>
HistoryWithBlank(n, blank) ==
  [i \in 1..n |-> ChatMessage(IF i % 2 = 1 THEN "user" ELSE "assistant",
                              IF i = blank THEN "" ELSE ContentNames[i])]
MessagesInputs ==
  [systemPrompt : {prompts[st] : st \in Stages},
   conversationHistory :
     {HistoryWithBlank(n, b) : n \in 0..MaxBuildLen, b \in 0..MaxBuildLen},
   userMessage : {"m1"}]

InitBuild ==
  /\ InitChat /\ InitNoPolicy
  /\ mIn \in MessagesInputs /\ mOut = NoMessagesOut /\ doLog = NoLog
  /\ hres = NoHistoryResponse

Build ==
  /\ ~mOut.done
  /\ mOut' = [done |-> TRUE,
              messages |-> buildMessages(mIn.systemPrompt, mIn.conversationHistory,
                                         mIn.userMessage)]
  /\ UNCHANGED <<mIn, doLog, hres, pIn, pOut, p2, chatVars>>

NextBuild == Build

SpecBuild == InitBuild /\ [][NextBuild]_vars

\* getHistory: GET /api/history/:sessionId.  The body of the object's /state
\* response is passed on with the default status, whatever the status of the
\* object's response was.
\* (variant: a read stores the stage it returns, creating the key on a session
\* that was never written)
GetHistory_m1(s, fault) ==
  /\ started < MaxSharedRequests
  /\ started' = started + 1
  /\ hres' = [sessionId |-> s, status |-> 200,
              body |-> getState(storage[s], fault).body]
  /\ storage' = [storage EXCEPT ![s] = storagePut(@, "stage", storedStage(s))]
  /\ UNCHANGED <<pc, req, loc, resp, trace, pre, ordinal, puts,
                 pIn, pOut, p2, mIn, mOut, doLog>>

GetHistory(s, fault) ==
  /\ started < MaxSharedRequests
  /\ started' = started + 1
  /\ hres' = [sessionId |-> s, status |-> 200,
              body |-> getState(storage[s], fault).body]
  /\ UNCHANGED <<storage, pc, req, loc, resp, trace, pre, ordinal, puts,
                 pIn, pOut, p2, mIn, mOut, doLog>>

GetHistoryOk == \E s \in Sessions : GetHistory(s, "none")
GetHistoryError == \E s \in Sessions, fault \in StateFaults : GetHistory(s, fault)

\* doStub.fetch(stateReq) rejects: the catch of getHistory answers 500.
GetHistoryReject ==
  /\ started < MaxSharedRequests
  /\ started' = started + 1
  /\ \E s \in Sessions :
       hres' = [sessionId |-> s] @@ ErrorResponse(500, "fetch failed")
  /\ UNCHANGED <<storage, pc, req, loc, resp, trace, pre, ordinal, puts,
                 pIn, pOut, p2, mIn, mOut, doLog>>

\* Overlapping turns and history reads of the two sessions; every failure
\* may happen.
NextShared ==
  \/ \E t \in Slots : ChatReceive(t, ValidChatBodies, MaxSharedRequests, FALSE)
  \/ \E t \in Slots : ChatStateOk(t)
  \/ \E t \in Slots : ChatStateError(t)
  \/ \E t \in Slots : ChatStateReject(t)
  \/ \E t \in Slots : ChatAiText(t)
  \/ \E t \in Slots : ChatAiOther(t)
  \/ \E t \in Slots : ChatAiReject(t)
  \/ \E t \in Slots : ChatSaveOk(t)
  \/ \E t \in Slots : ChatSaveError(t)
  \/ \E t \in Slots : ChatSaveReject(t)
  \/ GetHistoryOk
  \/ GetHistoryError
  \/ GetHistoryReject

SpecShared == Init /\ [][NextShared]_vars

\* One durable object on its own (AdvisorState.fetch): POST /message and
\* GET /state requests in any order, each of which may fail inside.
StoreSession == "s1"
MessageBodies ==
  [userMessage : {"m1"}, assistantMessage : {"r1", "[object Object]"},
   nextStage : Stages]

LastTwo(ops) == IF Len(ops) <= 2 THEN ops ELSE SubSeq(ops, Len(ops) - 1, Len(ops))

StoreMessage(body, fault) ==
  /\ doLog.n < MaxStoreOps
  /\ LET r == handleMessage(storage[StoreSession], body, fault)
         n(key) == Cardinality({i \in 1..Len(r.puts) : r.puts[i] = key})
     IN /\ storage' = [storage EXCEPT ![StoreSession] = r.storage]
        /\ puts' = [puts EXCEPT ![StoreSession] =
                      [history |-> @.history + n("history"),
                       stage |-> @.stage + n("stage")]]
        /\ doLog' = [n |-> doLog.n + 1,
                     ops |-> LastTwo(Append(doLog.ops,
                               [op |-> "message", body |-> body,
                                before |-> storedHistory(StoreSession),
                                response |-> r.response]))]
  /\ UNCHANGED <<pc, req, loc, resp, trace, pre, started, ordinal,
                 pIn, pOut, p2, mIn, mOut, hres>>

StoreMessageOk == \E body \in MessageBodies : StoreMessage(body, "none")
StoreMessageError ==
  \E body \in MessageBodies, fault \in MessageFaults : StoreMessage(body, fault)

StoreState(fault) ==
  /\ doLog.n < MaxStoreOps
  /\ doLog' = [n |-> doLog.n + 1,
               ops |-> LastTwo(Append(doLog.ops,
                         [op |-> "state", before |-> storedHistory(StoreSession),
                          response |-> getState(storage[StoreSession], fault)]))]
  /\ UNCHANGED <<chatVars, pIn, pOut, p2, mIn, mOut, hres>>

StoreStateOk == StoreState("none")
StoreStateError == \E fault \in StateFaults : StoreState(fault)

NextStore ==
  \/ StoreMessageOk
  \/ StoreMessageError
  \/ StoreStateOk
  \/ StoreStateError

SpecStore == Init /\ [][NextStore]_vars

\* ------------------------------------------------------------------ claims
StageRank(stage) ==
  CASE stage = "initial" -> 0
    [] stage = "diagnostic" -> 1
    [] stage = "solution" -> 2

\* The transition table of the stage policy.
TableNextStage(stage, len) ==
  CASE stage = "initial" -> IF len < 2 THEN "initial" ELSE "diagnostic"
    [] stage = "diagnostic" -> IF len < 4 THEN "diagnostic" ELSE "solution"
    [] stage = "solution" -> "solution"

C2_UnrecognizedAsInitial ==
  (pOut.done /\ pIn.currentStage \notin Stages)
    => /\ pOut.systemPrompt = prompts["initial"]
       /\ pOut.nextStage = TableNextStage("initial", Len(pIn.history))

\* C3: with turns handled one at a time, failures included, no step moves
\* the stored stage of a session to an earlier stage.
C3_StageMonotonicSeq ==
  [][\A s \in Sessions : StageRank(storedStage(s)') >= StageRank(storedStage(s))]_vars

\* C4: with overlapping turns, a save never replaces a stored diagnostic or
\* solution by an earlier stage.
C4_NoRegressionOverlap ==
  [][\A s \in Sessions :
       storedStage(s) \in {"diagnostic", "solution"}
         => storedStage(s)' \in
              (IF storedStage(s) = "solution" THEN {"solution"}
               ELSE {"diagnostic", "solution"})]_vars

\* C5: in a fresh session with turns one at a time and all succeeding, the
\* stage returned for the first user message is initial, for the second
\* diagnostic, for the third and every later one solution; after three
\* completed turns the stored stage is solution.
ExpectedReturnedStage(n) ==
  IF n = 1 THEN "initial" ELSE IF n = 2 THEN "diagnostic" ELSE "solution"

MissingOrEmpty(v) == v = Undefined \/ v = Str("")
BadInput(t) == MissingOrEmpty(req[t].sessionId) \/ MissingOrEmpty(req[t].userMessage)

C6_State ==
  \A t \in Slots :
    (pc[t] # "idle" /\ BadInput(t))
      => /\ pc[t] \in {"received", "done"}
         /\ pc[t] = "done"
              => resp[t] = ErrorResponse(400, "sessionId and userMessage required")
         /\ trace[t].stateReads = 0
         /\ trace[t].aiCalls = 0
         /\ trace[t].saves = 0

C6_Step ==
  \A t \in Slots :
    (pc[t] = "received" /\ BadInput(t) /\ pc'[t] # pc[t])
      => /\ storage' = storage
         /\ puts' = puts
         /\ pc'[t] = "done"

C6_InvalidInput == [](C6_State) /\ [][C6_Step]_vars

C6_Witness ==
  \E t \in Slots :
    /\ pc[t] = "done"
    /\ req[t].sessionId = Str("s1")
    /\ req[t].userMessage = Str("")
    /\ resp[t].status = 400
    /\ storedHistory("s1") # <<>>

\* C7: a turn whose save failed is never answered with a success carrying
\* the message and the stage; its answer is a server error.
C7_WriteFailureIsServerError ==
  \A t \in Slots :
    (pc[t] = "done" /\ trace[t].saveFault # "none") => resp[t].status = 500

\* C8: when the backend call of a turn fails the caller receives a server
\* error, the backend was called once, no save was issued, and the session's
\* storage is what it was when the turn arrived.
C8_BackendFailure ==
  \A t \in Slots :
    trace[t].aiFault # "none"
      => /\ pc[t] = "done"
         /\ resp[t].status = 500
         /\ "message" \notin DOMAIN resp[t].body
         /\ trace[t].aiCalls = 1
         /\ trace[t].saves = 0
         /\ storage[sessionOf(t)] = pre[t]

C8_Witness ==
  \E t \in Slots :
    /\ trace[t].aiFault = "reject"
    /\ pc[t] = "done"
    /\ storedHistory(sessionOf(t)) # <<>>
    /\ storedStage(sessionOf(t)) = "diagnostic"

\* C9: in every state of the store the history append and the stage update
\* of a turn have both been applied or neither has.
C9_PairAndStageTogether ==
  \A s \in Sessions : puts[s].history = puts[s].stage

\* C10 (as stated): whenever the state read of a turn fails, the turn goes on
\* as for an empty fresh session and is not ended by an error for the read.
ProceedsAsFresh(t) ==
  /\ pc[t] # "received"
  /\ pc[t] \in {"ai", "save"}
       => /\ loc[t].currentStage = "initial"
          /\ loc[t].conversationHistory = <<>>
          /\ loc[t].systemPrompt = prompts["initial"]
          /\ loc[t].nextStage = "initial"
          /\ loc[t].messages = <<[role |-> "system", content |-> prompts["initial"]],
                                 [role |-> "user", content |-> req[t].userMessage.value]>>
  /\ pc[t] = "done" => trace[t].aiCalls = 1
  /\ (pc[t] = "done" /\ trace[t].aiFault = "none" /\ trace[t].saveFault # "reject")
       => /\ resp[t].status = 200
          /\ resp[t].body.stage = "initial"

Min(a, b) == IF a <= b THEN a ELSE b
WindowStart(h) == Len(h) - Min(HistoryWindow, Len(h)) + 1

KeptIndices(h) ==
  {i \in WindowStart(h)..Len(h) : h[i].role # "" /\ h[i].content # ""}
KeptIndex(h, j) ==
  CHOOSE i \in KeptIndices(h) : Cardinality({x \in KeptIndices(h) : x <= i}) = j

C12_EvenAlternating ==
  \A s \in Sessions :
    LET h == storedHistory(s)
    IN /\ Len(h) % 2 = 0
       /\ \A i \in 1..Len(h) :
            h[i].role = (IF i % 2 = 1 THEN "user" ELSE "assistant")

C12_Witness ==
  \E s \in Sessions :
    /\ Len(storedHistory(s)) = 4
    /\ storedHistory(s)[3].role = "user"
    /\ storedHistory(s)[4].role = "assistant"
    /\ puts[s].stage = 2

\* C13: history is append-only: in every step the stored history of a
\* session before the step is a prefix of the one after it.
IsPrefix(a, b) == Len(a) <= Len(b) /\ \A i \in 1..Len(a) : a[i] = b[i]

C13_AppendOnly ==
  [][\A s \in Sessions : IsPrefix(storedHistory(s), storedHistory(s)')]_vars

C13_Witness ==
  \E s \in Sessions :
    /\ Len(storedHistory(s)) = 4
    /\ storedHistory(s)[2].content = "r1"
    /\ storedHistory(s)[4].content = "[object Object]"
    /\ puts[s].history = 2
    /\ puts[s].stage = 1

\* C14: a successful write followed by a read returns the history of before
\* the write plus the user message and the assistant message of the write, in
\* this order, the stage of the write, and a messageCount that is the
\* previous length plus 2 and the count the write reported.
WriteThenRead ==
  /\ Len(doLog.ops) = 2
  /\ doLog.ops[1].op = "message"
  /\ doLog.ops[1].response.status = 200
  /\ doLog.ops[2].op = "state"
  /\ doLog.ops[2].response.status = 200

C14_WriteReadRoundTrip ==
  WriteThenRead
    => LET w == doLog.ops[1]
           r == doLog.ops[2].response.body
       IN /\ r.history = w.before \o <<[role |-> "user", content |-> w.body.userMessage],
                                       [role |-> "assistant",
                                        content |-> w.body.assistantMessage]>>
          /\ r.stage = w.body.nextStage
          /\ r.messageCount = Len(w.before) + 2
          /\ r.messageCount = w.response.body.messageCount
          /\ w.response.body.stage = w.body.nextStage

C14_Witness ==
  /\ WriteThenRead
  /\ Len(doLog.ops[1].before) = 2
  /\ doLog.ops[1].body.nextStage = "diagnostic"
  /\ doLog.ops[2].response.body.messageCount = 4

C16_PromptOfCurrentStage ==
  pOut.done /\ pIn.currentStage \in Stages
    => pOut.systemPrompt = prompts[pIn.currentStage]

C16_Witness ==
  /\ pOut.done
  /\ pIn.currentStage = "diagnostic" /\ Len(pIn.history) = 4
  /\ pOut.nextStage = "solution"
  /\ pOut.systemPrompt = "PROMPT:diagnostic"

\* C17: a turn whose backend call returned a value without a usable text
\* (text absent or empty, or no response object at all) does not end in a
\* failure: it goes on to the save with the fallback rendering as its reply
\* and, unless the store is unreachable, answers with a success.
C17_NoTextStillSucceeds ==
  \A t \in Slots :
    /\ trace[t].aiFault = "null" => (pc[t] = "done" => resp[t].status = 200)
    /\ (pc[t] = "save" /\ loc[t].assistantMessage # "r1")
         => loc[t].assistantMessage = "[object Object]"

\* C18: a step of a turn or of a history read changes the stored state of a
\* session only when it is the save of a turn whose request names that
\* session; the stored stage and history of every other session stay as
\* they were, whether the step succeeds or fails.
C18_SessionsIsolated ==
  [][\A B \in Sessions :
       storage'[B] # storage[B]
         => /\ hres' = hres
            /\ \E t \in Slots : /\ pc[t] = "save" /\ pc'[t] = "done"
                                /\ req[t].sessionId.value = B]_vars

C18_Witness ==
  /\ Len(storedHistory("s1")) = 2
  /\ storage["s2"] = EmptyStorage
  /\ hres.sessionId = "s2" /\ hres.status = 200
  /\ hres.body.messageCount = 0
  /\ \E t \in Slots : pc[t] = "done" /\ req[t].sessionId.value = "s1"
                      /\ trace[t].saveFault = "none" /\ trace[t].saves = 1

\* C19: a session that has never been written reads as stage initial with an
\* empty history and messageCount 0, and the first turn on it is the turn on
\* the explicit state {stage: initial, history: []}: it uses the initial
\* prompt, returns stage initial and leaves a 2-entry history with stage
\* initial.
ExplicitFresh == [stage |-> "initial", messageCount |-> 0, history |-> <<>>]

FirstTurnReads(t) ==
  /\ pc[t] = "received" /\ pc'[t] = "ai"
  /\ pre[t] = EmptyStorage

FirstTurnSaves(t) ==
  /\ pc[t] = "save" /\ pc'[t] = "done"
  /\ pre[t] = EmptyStorage

C19_FreshSession ==
  [][\A t \in Slots :
       /\ FirstTurnReads(t)
            => /\ getState(storage[req[t].sessionId.value], "none").body = ExplicitFresh
               /\ loc'[t].currentStage = stageOfBody(ExplicitFresh)
               /\ loc'[t].conversationHistory = historyOfBody(ExplicitFresh)
               /\ loc'[t].currentStage = "initial"
               /\ loc'[t].conversationHistory = <<>>
               /\ loc'[t].systemPrompt = prompts["initial"]
               /\ loc'[t].messages[1] = [role |-> "system", content |-> prompts["initial"]]
               /\ Len(loc'[t].messages) = 2
               /\ loc'[t].nextStage = "initial"
       /\ FirstTurnSaves(t)
            => /\ resp'[t].status = 200
               /\ resp'[t].body.stage = "initial"
               /\ Len(storedHistory(req[t].sessionId.value)') = 2
               /\ storedStage(req[t].sessionId.value)' = "initial"]_vars

C19_Witness ==
  \E t \in Slots :
    /\ pc[t] = "done" /\ pre[t] = EmptyStorage
    /\ req[t].sessionId.value = "s2"
    /\ resp[t].status = 200 /\ resp[t].body.stage = "initial"
    /\ storedHistory("s2") = <<[role |-> "user", content |-> "m1"],
                               [role |-> "assistant", content |-> "r1"]>>
    /\ storedStage("s2") = "initial"
    /\ storage["s1"] = EmptyStorage

\* C20: when the turns of a session overlap and all succeed, no pair is
\* lost: the stored history of the session holds exactly two entries, a user
\* message followed by an assistant message, for every completed turn.
CompletedTurns(s) ==
  ordinal[s] - Cardinality({t \in Slots : InFlight(t) /\ req[t].sessionId.value = s})

C20_NoLostPair ==
  \A s \in Sessions :
    /\ Len(storedHistory(s)) = 2 * CompletedTurns(s)
    /\ \A k \in 1..CompletedTurns(s) :
         /\ storedHistory(s)[2 * k - 1] = [role |-> "user", content |-> "m1"]
         /\ storedHistory(s)[2 * k] = [role |-> "assistant", content |-> "r1"]

C20_Witness ==
  /\ \A t \in Slots : /\ pc[t] = "done" /\ req[t].sessionId.value = "s1"
                      /\ pre[t] = EmptyStorage
  /\ CompletedTurns("s1") = MaxSlots
  /\ Len(storedHistory("s1")) = 2 * MaxSlots

\* C21 (as stated): with turns handled one at a time and no failures, the
\* stored (stage, history length) of a session is (initial, 0), (initial, 2),
\* (diagnostic, 4) or (solution, n) with n even and n >= 6, the stored stage
\* is diagnostic after exactly one completed turn, and the policy is never
\* called with stage diagnostic and fewer than 4 entries.
StoredPairAllowed(s) ==
  LET stage == storedStage(s)
      n == Len(storedHistory(s))
  IN \/ stage = "initial" /\ n \in {0, 2}
     \/ stage = "diagnostic" /\ n = 4
     \/ stage = "solution" /\ n >= 6 /\ n % 2 = 0

DiagnosticBranchBelowFourNotTaken ==
  \A t \in Slots :
    pc[t] \in {"ai", "save"}
      => ~(loc[t].currentStage = "diagnostic" /\ Len(loc[t].conversationHistory) < 4)

PromptOfTurn(n) ==
  IF n <= 2 THEN prompts["initial"]
  ELSE IF n = 3 THEN prompts["diagnostic"]
  ELSE prompts["solution"]

StageReturnedByTurn(n) ==
  IF n <= 1 THEN "initial"
  ELSE IF n = 2 THEN "diagnostic"
  ELSE "solution"

LatestAnsweredTurn(t) ==
  /\ pc[t] = "done"
  /\ resp[t].status = 200
  /\ trace[t].n = ordinal[req[t].sessionId.value]

C23_AnswerMatchesStore ==
  \A t \in Slots :
    LatestAnsweredTurn(t)
      => LET read == getState(storage[req[t].sessionId.value], "none").body
         IN /\ read.stage = resp[t].body.stage
            /\ read.messageCount >= 2
            /\ read.history[read.messageCount] =
                 [role |-> "assistant", content |-> resp[t].body.message]

\* C24: a read of a session, by the history endpoint or at the start of a
\* turn, leaves the stored history and stage of every session as they were,
\* also when nothing was ever stored; a history response that carries a
\* messageCount carries the stored history, and the count is its length.
HistoryReadStep == started' = started + 1 /\ pc' = pc
TurnReadStep == \E t \in Slots : pc[t] = "received" /\ pc'[t] # "received"

C24_ReadsChangeNothing ==
  [][/\ (HistoryReadStep \/ TurnReadStep) => storage' = storage
     /\ (HistoryReadStep /\ "messageCount" \in DOMAIN hres'.body)
          => /\ hres'.body.messageCount = Len(hres'.body.history)
             /\ hres'.body.history = storedHistory(hres'.sessionId)
             /\ hres'.body.stage = storedStage(hres'.sessionId)]_vars

C24_Witness ==
  /\ hres.sessionId = "s1" /\ hres.status = 200
  /\ "messageCount" \in DOMAIN hres.body
  /\ hres.body.messageCount = 2
  /\ hres.body.history = storedHistory("s1")
  /\ storage["s2"] = EmptyStorage
  /\ started = MaxSharedRequests

====
